---- MODULE Spec2Model ----
(***************************************************************************)
(* A model of the code execution system: CodeExecutor.execute_c_code       *)
(* (src/code_executor.py), ConnectionManager and the websocket / execute   *)
(* endpoints (src/main.py) and ChatHandler.process_message                 *)
(* (src/chat_handler.py).                                                  *)
(*                                                                         *)
(* All coroutines run on one asyncio event loop.  A coroutine runs without *)
(* interruption until it suspends; the only suspension points of the code  *)
(* are websocket.accept() and websocket.send_text().  subprocess.run is a  *)
(* synchronous call: it keeps the event loop until it returns.  The        *)
(* variable running names the execution task that currently holds the    *)
(* loop (Idle when every task is suspended or finished).                   *)
(***************************************************************************)
EXTENDS Integers, Sequences, FiniteSets, TLC

\* ------------------------------------------------------------------ bounds
MaxReq  == 4      \* client requests and events: POST /api/execute, POST /api/chat,
                  \* websocket connections opened, closed, broken
MaxMsgs == 2      \* chat messages processed
MaxMix  == 3      \* client requests and events when every kind is allowed (Spec)

ExecIds  == 1..MaxReq   \* uuid4 values, in the order they are drawn
Channels == 1..MaxReq   \* WebSocket objects
Idle     == 0            \* no task holds the event loop
ChatTask == -1           \* the process_message call holds it

VARIABLES
  gcc_available,      \* CodeExecutor.gcc_available
  execution_results,  \* CodeExecutor.execution_results: dict id -> result
  active_connections, \* ConnectionManager.active_connections: dict id -> list
  pc,                 \* position of each execute_c_code task
  running,            \* the task holding the event loop, or Idle
  result,             \* the local result dict of each execute_c_code call
  start_time,         \* the local start_time of each call
  now,                \* time.time()
  temp_dir,           \* the local temp_dir of each call (NoDir before mkdtemp)
  fs,                 \* the temporary directories that exist
  args,               \* the arguments each call was made with
  bc,                 \* the frame of the broadcast call each task is inside
  published,          \* per id, the messages passed to broadcast, in call order
  trail,              \* per call, the subprocess.run calls made and what each did
  wpc,                \* position of each websocket_endpoint task
  wid,                \* the execution_id path parameter of each connection
  broken,             \* connections whose send_text raises
  received,           \* per connection, the texts sent to it, in send order
  joined_after,       \* connections that found a stored result on joining (line 783)
  sessions,           \* ChatHandler.sessions: dict session id -> session
  response,           \* what the last process_message call returned
  chat,               \* the frame of the process_message call last made
  tally,              \* per session: calls made, and calls in which
                      \* generate_code or generate_chat_response raised
  inbox,              \* the /api/chat requests whose handler task was created
                      \* and has not run yet, in creation order
  arrived,            \* per session, the messages of its requests in arrival order
  nmsgs,              \* number of /api/chat requests made
  nreq,               \* number of client requests and events so far
  lookup              \* the last GET /api/results/{id}: the id, what was
                      \* returned, and where the call for that id was then

execVars == <<gcc_available, execution_results, active_connections, pc, running,
              result, start_time, now, temp_dir, fs, args, bc, published, trail>>
wsVars   == <<wpc, wid, broken, received, joined_after>>
chatVars == <<sessions, response, chat, tally, inbox, arrived, nmsgs>>
vars     == <<execVars, wsVars, chatVars, nreq, lookup>>

\* ------------------------------------------------------------- sequences
InSeq(x, s) == \E k \in 1..Len(s) : s[k] = x

\* list.pop(): drops the last element, whatever it is
PopLast(s, x) == SubSeq(s, 1, Len(s) - 1)
\* list.remove(x): drops the first occurrence of x
RemoveFirst(s, x) ==
  LET k == CHOOSE j \in 1..Len(s) : s[j] = x /\ \A m \in 1..(j - 1) : s[m] # x
  IN  [j \in 1..(Len(s) - 1) |-> IF j < k THEN s[j] ELSE s[j + 1]]

\* dict without key k
DelKey(d, k) == [x \in (DOMAIN d) \ {k} |-> d[x]]

\* dict with d[k] = v
SetKey(d, k, v) == [x \in (DOMAIN d) \cup {k} |-> IF x = k THEN v ELSE d[x]]

Min(S) == CHOOSE x \in S : \A y \in S : x <= y

\* ------------------------------------------------------------ the engine
NoDir == 0
Paths == 1..MaxReq

\* result = {"output": "", "error": "", "status_code": 0, "execution_time": 0}
InitialResult ==
  [output |-> "", error |-> "", status_code |-> 0, execution_time |-> 0]

GccMissingMessage == "GCC compiler is not available. Please install GCC."
TimeoutMessage    == "Execution timed out after 10 seconds"

\* a branch that returns the record as it was initialised
UnavailableResultUnset(r) == r
\* the result after if not self.gcc_available:
UnavailableResult(r) ==
  [r EXCEPT !.error = GccMissingMessage, !.status_code = 1]

\* a branch that records the exit code and drops the compiler's stderr
CompileErrorResultNoStderr(r, stderr, rc) == [r EXCEPT !.status_code = rc]
\* the result after a compiler exit with returncode rc # 0
CompileErrorResult(r, stderr, rc) ==
  [r EXCEPT !.error = stderr, !.status_code = rc]

\* what subprocess.run of the compiler can do
CompileOutcomes ==
  { [kind |-> "exit", rc |-> 0, stderr |-> ""],
    [kind |-> "exit", rc |-> 1, stderr |-> "program.c: error"],
    [kind |-> "raise", rc |-> 0, stderr |-> ""] }

\* what the run step can do: the program exits, the 10 s timeout expires, or
\* another exception is raised (writing input.txt, starting the binary)
RunOutcomes ==
  { [kind |-> "exit", stdout |-> "out", stderr |-> "", rc |-> 0],
    [kind |-> "exit", stdout |-> "", stderr |-> "segv", rc |-> 2],
    [kind |-> "timeout", stdout |-> "", stderr |-> "", rc |-> 0],
    [kind |-> "raise", stdout |-> "", stderr |-> "", rc |-> 0] }

\* an inner try without the except subprocess.TimeoutExpired clause
RunResultNoTimeout(r, o) ==
  IF o.kind = "exit"
    THEN [r EXCEPT !.output = o.stdout,
                   !.error = IF o.stderr # "" THEN o.stderr ELSE r.error,
                   !.status_code = o.rc]
    ELSE [r EXCEPT !.error = "Execution error", !.status_code = 1]
\* the result after the inner try/except around the run step
RunResult(r, o) ==
  CASE o.kind = "exit" ->
         [r EXCEPT !.output = o.stdout,
                   !.error = IF o.stderr # "" THEN o.stderr ELSE r.error,
                   !.status_code = o.rc]
    [] o.kind = "timeout" ->
         [r EXCEPT !.error = TimeoutMessage, !.status_code = 1]
    [] OTHER ->
         [r EXCEPT !.error = "Execution error", !.status_code = 1]

\* the result after except Exception as e: of the outer try
UnexpectedResult(r) ==
  [r EXCEPT !.error = "Unexpected error", !.status_code = 1]

\* result["execution_time"] = time.time() - start_time
WithExecutionTime(r, t0, t1) == [r EXCEPT !.execution_time = t1 - t0]

\* the JSON texts passed to broadcast / send_text
StatusEvent(s)     == [status |-> s]
ErrorEvent(s, err) == [status |-> s, error |-> err]
CompletedEvent(r)  == [status |-> "completed", result |-> r]

\* lines 48-52: the message broadcast when gcc is not available
UnavailableEventCompleted == CompletedEvent(UnavailableResult(InitialResult))
UnavailableEvent == ErrorEvent("error", GccMissingMessage)

\* an id generator that hands out the id of a finished execution again
RecycledExecutionId == Min({e \in ExecIds : pc[e] \in {"unused", "done"}})
\* str(uuid.uuid4()): an id no call has used
NewExecutionId == Min({e \in ExecIds : pc[e] = "unused"})

\* a workspace at a fixed path, the same for every call
FixedDir == Min(Paths)
\* tempfile.mkdtemp(): a directory that does not exist yet
Mkdtemp == Min(Paths \ fs)

\* ----------------------------------------------------- ConnectionManager
\* a disconnect without the del of line 652
DisconnectKeepsKey(ac, ws, e) ==
  IF e \in DOMAIN ac
    THEN SetKey(ac, e, IF InSeq(ws, ac[e]) THEN RemoveFirst(ac[e], ws) ELSE ac[e])
    ELSE ac
\* ConnectionManager.disconnect, as a function of the dict
Disconnect(ac, ws, e) ==
  IF e \in DOMAIN ac
    THEN LET l == IF InSeq(ws, ac[e]) THEN RemoveFirst(ac[e], ws) ELSE ac[e]
         IN  IF l = <<>> THEN DelKey(ac, e) ELSE SetKey(ac, e, l)
    ELSE ac

\* for ws in disconnected_websockets: self.disconnect(ws, execution_id)
RECURSIVE DisconnectAll(_, _, _)
DisconnectAll(ac, dws, e) ==
  IF dws = <<>> THEN ac
  ELSE DisconnectAll(Disconnect(ac, Head(dws), e), Tail(dws), e)

\* ConnectionManager.connect after accept(), as a function of the dict
Connect(ac, ws, e) ==
  SetKey(ac, e, Append(IF e \in DOMAIN ac THEN ac[e] ELSE <<>>, ws))

\* a connection that hands the peer the latest text first
DeliverFirst(rcv, ws, msg) == [rcv EXCEPT ![ws] = <<msg>> \o @]
\* connection.send_text(message): the text reaches the peer, in send order
Deliver(rcv, ws, msg) == [rcv EXCEPT ![ws] = Append(@, msg)]

\* the frame of a broadcast call: the message, the index of the loop, the
\* list disconnected_websockets, whether the list object iterated was dropped
\* from the dict, where execute_c_code goes on, and the list as it was when
\* the call was made
NoBc == [ev |-> StatusEvent("none"), i |-> 0, disc |-> <<>>, orphan |-> FALSE,
         next |-> "none", at_call |-> <<>>]

\* The list object the for loop of broadcast iterates.  disconnect deletes
\* the dict entry once the list is empty; a later connect makes a new list,
\* and the loop keeps the old, empty one (orphan).
BcList(e) ==
  IF bc[e].orphan \/ e \notin DOMAIN active_connections
    THEN <<>> ELSE active_connections[e]

\* one iteration of the loop of broadcast: send to ws, remember a failure, and
\* suspend in send_text
SendTo(e, ws, ev, i, disc, cont, at_call) ==
  /\ received' = IF broken[ws] THEN received ELSE Deliver(received, ws, ev)
  /\ bc' = [bc EXCEPT ![e] = [ev |-> ev, i |-> i,
                              disc |-> IF broken[ws] THEN Append(disc, ws) ELSE disc,
                              orphan |-> bc[e].orphan, next |-> cont,
                              at_call |-> at_call]]
  /\ pc' = [pc EXCEPT ![e] = "broadcast"]
  /\ running' = Idle

\* who holds the event loop once broadcast has returned to execute_c_code at
\* cont: the task itself, until return execution_id, result ends it
After(e, cont) ==
  IF cont # "done" THEN e ELSE IF args[e].manager THEN Idle ELSE ChatTask

\* await websocket_manager.broadcast(json.dumps(ev), execution_id) followed by
\* the code at cont; a call made without websocket_manager publishes nothing
Broadcast(e, ev, cont) ==
  IF args[e].manager
    THEN /\ published' = [published EXCEPT ![e] = Append(@, ev)]
         /\ IF e \in DOMAIN active_connections /\ active_connections[e] # <<>>
              THEN SendTo(e, active_connections[e][1], ev, 1, <<>>, cont,
                          active_connections[e])
              ELSE /\ pc' = [pc EXCEPT ![e] = cont]
                   /\ running' = After(e, cont)
                   /\ UNCHANGED <<received, bc>>
    ELSE /\ pc' = [pc EXCEPT ![e] = cont]
         /\ running' = After(e, cont)
         /\ UNCHANGED <<received, bc, published>>

\* the task resumes from send_text: next iteration, or the clean-up after the
\* loop and the return to execute_c_code
BroadcastResume(e) ==
  /\ running = Idle
  /\ pc[e] = "broadcast"
  /\ IF bc[e].i < Len(BcList(e))
       THEN /\ SendTo(e, BcList(e)[bc[e].i + 1], bc[e].ev, bc[e].i + 1,
                      bc[e].disc, bc[e].next, bc[e].at_call)
            /\ UNCHANGED active_connections
       ELSE /\ active_connections' = DisconnectAll(active_connections, bc[e].disc, e)
            /\ pc' = [pc EXCEPT ![e] = bc[e].next]
            /\ bc' = [bc EXCEPT ![e] = NoBc]
            /\ running' = After(e, bc[e].next)
            /\ UNCHANGED received
  /\ UNCHANGED <<gcc_available, trail, execution_results, result, start_time, now,
                 temp_dir, fs, args, published, wpc, wid, broken, joined_after,
                 chatVars, nreq, lookup>>

\* ------------------------------------------------ POST /api/execute
Codes  == {"int main(){}"}
Inputs == {""}

\* execute_code: a fresh id, and execute_c_code added as a background task
\* with websocket_manager = manager
ExecuteCode(code, input) ==
  /\ running = Idle
  /\ nreq < MaxReq
  /\ nreq' = nreq + 1
  /\ lookup' = lookup
  /\ LET e == NewExecutionId IN
       /\ pc' = [pc EXCEPT ![e] = "ready"]
       /\ args' = [args EXCEPT ![e] = [code |-> code, input |-> input, manager |-> TRUE]]
  /\ UNCHANGED <<gcc_available, trail, execution_results, active_connections, running,
                 result, start_time, now, temp_dir, fs, bc, published,
                 wsVars, chatVars>>

\* --------------------------------------------- execute_c_code, step by step
\* the readings time.time() can give after a reading of t, a few statements
\* later: the same value, or a later one
ClockAfter(t) == {t, t + 1}

\* lines 30-67: entry, the gcc check, mkdtemp and the "starting" broadcast;
\* without gcc the record is stored at line 46, some time after line 33
Start(e) ==
  /\ pc[e] = "ready"
  /\ \/ running = e          \* called by process_message
     \/ /\ running = Idle    \* a background task; they start in request order
        /\ e = Min({x \in ExecIds : pc[x] = "ready"})
  /\ start_time' = [start_time EXCEPT ![e] = now]
  /\ IF ~gcc_available
       THEN /\ result' = [result EXCEPT ![e] = UnavailableResult(InitialResult)]
            /\ execution_results' =
                 SetKey(execution_results, e, UnavailableResult(InitialResult))
            /\ now' \in ClockAfter(now)
            /\ Broadcast(e, UnavailableEvent, "done")
            /\ UNCHANGED <<temp_dir, fs>>
       ELSE \/ /\ result' = [result EXCEPT ![e] = InitialResult]
               /\ temp_dir' = [temp_dir EXCEPT ![e] = Mkdtemp]
               /\ fs' = fs \cup {Mkdtemp}
               /\ Broadcast(e, StatusEvent("starting"), "write")
               /\ UNCHANGED <<execution_results, now>>
            \/ \* mkdtemp raises: it is outside the try
               /\ pc' = [pc EXCEPT ![e] = "raised"]
               /\ running' = After(e, "done")
               /\ UNCHANGED <<result, temp_dir, fs, execution_results, received,
                              bc, published, now>>
  /\ UNCHANGED <<gcc_available, trail, active_connections, args, wpc, wid, broken,
                 joined_after, chatVars, nreq, lookup>>

\* lines 69-78: write program.c, then the "compiling" broadcast
WriteSource(e) ==
  /\ running = e
  /\ pc[e] = "write"
  /\ \/ Broadcast(e, StatusEvent("compiling"), "compile")
     \/ \* open / write raises
        /\ pc' = [pc EXCEPT ![e] = "except"]
        /\ UNCHANGED <<running, received, bc, published>>
  /\ UNCHANGED <<gcc_available, trail, execution_results, active_connections, result,
                 start_time, now, temp_dir, fs, args, wpc, wid, broken, joined_after,
                 chatVars, nreq, lookup>>

\* lines 80-104: subprocess.run(['gcc', ...]) holds the event loop until the
\* compiler returns
Compile(e) ==
  /\ running = e
  /\ pc[e] = "compile"
  /\ now' = now + 1
  /\ \E o \in CompileOutcomes :
       /\ trail' = [trail EXCEPT ![e] = Append(@, [step |-> "compile", did |-> o])]
       /\ CASE o.kind = "raise" ->
                 /\ pc' = [pc EXCEPT ![e] = "except"]
                 /\ UNCHANGED <<running, result, received, bc, published>>
            [] o.kind = "exit" /\ o.rc # 0 ->
                 /\ result' = [result EXCEPT ![e] = CompileErrorResult(@, o.stderr, o.rc)]
                 /\ Broadcast(e, ErrorEvent("compile_error", o.stderr), "finally")
            [] OTHER ->
                 /\ result' = result
                 /\ Broadcast(e, StatusEvent("running"), "run")
  /\ UNCHANGED <<gcc_available, execution_results, active_connections,
                 start_time, temp_dir, fs, args, wpc, wid, broken, joined_after,
                 chatVars, nreq, lookup>>

\* lines 106-142: subprocess.run([executable_path], timeout=10) holds the event
\* loop until the program returns, times out or the step raises
Run(e) ==
  /\ running = e
  /\ pc[e] = "run"
  /\ now' = now + 1
  /\ \E o \in RunOutcomes :
       /\ trail' = [trail EXCEPT ![e] = Append(@, [step |-> "run", did |-> o])]
       /\ result' = [result EXCEPT ![e] = RunResult(@, o)]
  /\ pc' = [pc EXCEPT ![e] = "finally"]
  /\ UNCHANGED <<gcc_available, execution_results, active_connections, running,
                 start_time, temp_dir, fs, args, bc, published, wsVars, chatVars, nreq, lookup>>

\* lines 144-153: the handler of the outer try
Except(e) ==
  /\ running = e
  /\ pc[e] = "except"
  /\ result' = [result EXCEPT ![e] = UnexpectedResult(@)]
  /\ Broadcast(e, ErrorEvent("error", "exception"), "finally")
  /\ UNCHANGED <<gcc_available, trail, execution_results, active_connections,
                 start_time, now, temp_dir, fs, args, wpc, wid, broken, joined_after,
                 chatVars, nreq, lookup>>

\* shutil.rmtree(temp_dir, ignore_errors=True): the tree is removed, or an
\* entry cannot be deleted, the error is ignored and the directory stays.
\* Without a run step the directory holds only the files this call wrote;
\* a program that ran may have put an entry there that cannot be deleted.
RmtreeOutcomes(steps) ==
  IF \E k \in 1..Len(steps) : steps[k].step = "run"
    THEN {"removed", "left"}
    ELSE {"removed"}
Rmtree(dirs, d, o) == IF o = "removed" THEN dirs \ {d} ELSE dirs

\* the result stored by the finally block
FinalResult(e) == WithExecutionTime(result[e], start_time[e], now)

\* lines 155-176: rmtree, execution_time, the store and the "completed" broadcast
Finally(e) ==
  /\ running = e
  /\ pc[e] = "finally"
  /\ \E o \in RmtreeOutcomes(trail[e]) : fs' = Rmtree(fs, temp_dir[e], o)
  /\ result' = [result EXCEPT ![e] = FinalResult(e)]
  /\ execution_results' = SetKey(execution_results, e, FinalResult(e))
  /\ Broadcast(e, CompletedEvent(FinalResult(e)), "done")
  /\ UNCHANGED <<gcc_available, trail, active_connections, start_time, now, temp_dir,
                 args, wpc, wid, broken, joined_after,
                 chatVars, nreq, lookup>>

\* ----------------------------------------- /ws/execution/{execution_id}
\* a client opens a connection for an id it was given; the endpoint suspends
\* in websocket.accept()
WsOpen(e) ==
  /\ running = Idle
  /\ nreq < MaxReq
  /\ nreq' = nreq + 1
  /\ lookup' = lookup
  /\ pc[e] # "unused"
  /\ LET w == Min({c \in Channels : wpc[c] = "unused"}) IN
       /\ wpc' = [wpc EXCEPT ![w] = "accepting"]
       /\ wid' = [wid EXCEPT ![w] = e]
  /\ UNCHANGED <<execVars, broken, received, joined_after, chatVars>>

\* the text of the replay sent on joining
ReplayEvent(e) == CompletedEvent(execution_results[e])

\* accept() returns: the connection is appended, and when a result is stored
\* it is sent at once; a failing accept leaves the endpoint, a failing
\* send_text disconnects
WsAccept(w) ==
  /\ running = Idle
  /\ wpc[w] = "accepting"
  /\ \/ /\ broken[w]
        /\ wpc' = [wpc EXCEPT ![w] = "closed"]
        /\ UNCHANGED <<active_connections, received, joined_after>>
     \/ LET e  == wid[w]
            ac == Connect(active_connections, w, e)
        IN  IF e \in DOMAIN execution_results
              THEN IF broken[w]
                     THEN /\ active_connections' = Disconnect(ac, w, e)
                          /\ wpc' = [wpc EXCEPT ![w] = "closed"]
                          /\ UNCHANGED <<received, joined_after>>
                     ELSE /\ active_connections' = ac
                          /\ received' = Deliver(received, w, ReplayEvent(e))
                          /\ wpc' = [wpc EXCEPT ![w] = "open"]
                          /\ joined_after' = [joined_after EXCEPT ![w] = TRUE]
              ELSE /\ active_connections' = ac
                   /\ wpc' = [wpc EXCEPT ![w] = "open"]
                   /\ UNCHANGED <<received, joined_after>>
  /\ bc' = bc
  /\ UNCHANGED <<gcc_available, trail, execution_results, pc, running, result,
                 start_time, now, temp_dir, fs, args, published, wid, broken,
                 chatVars, nreq, lookup>>

\* the dict entry of e is deleted: a broadcast loop over its list keeps the
\* old list object, which stays empty
Orphaned(ac) ==
  [e \in ExecIds |->
     IF pc[e] = "broadcast" /\ e \notin DOMAIN ac
       THEN [bc[e] EXCEPT !.orphan = TRUE] ELSE bc[e]]

\* receive_text raises (the client went away): manager.disconnect
WsDisconnect(w) ==
  /\ running = Idle
  /\ nreq < MaxReq
  /\ nreq' = nreq + 1
  /\ lookup' = lookup
  /\ wpc[w] = "open"
  /\ active_connections' = Disconnect(active_connections, w, wid[w])
  /\ bc' = Orphaned(Disconnect(active_connections, w, wid[w]))
  /\ wpc' = [wpc EXCEPT ![w] = "closed"]
  /\ UNCHANGED <<gcc_available, trail, execution_results, pc, running, result,
                 start_time, now, temp_dir, fs, args, published, wid, broken,
                 received, joined_after, chatVars>>

\* the peer of a connection goes away: send_text raises from now on
Break(w) ==
  /\ running = Idle
  /\ nreq < MaxReq
  /\ nreq' = nreq + 1
  /\ lookup' = lookup
  /\ wpc[w] \in {"accepting", "open"}
  /\ ~broken[w]
  /\ broken' = [broken EXCEPT ![w] = TRUE]
  /\ UNCHANGED <<execVars, wpc, wid, received, joined_after, chatVars>>

\* ------------------------------------------- GET /api/results/{execution_id}
NotFound == [detail |-> "Execution result not found"]   \* the 404 of line 771
NoLookup == [id |-> 0, found |-> NotFound, at |-> "none"]

\* a lookup that hands out the dict the call is working on
LiveResult(e) == result[e]
\* get_execution_results: the stored dict, or 404
GetExecutionResults(e) ==
  IF e \in DOMAIN execution_results THEN execution_results[e] ELSE NotFound

\* where the execute_c_code call of e is: the statement it is at, or the one
\* it goes on with once the broadcast it is suspended in has returned
Position(e) == IF pc[e] = "broadcast" THEN bc[e].next ELSE pc[e]

\* a client asks for the result of an id it was given
Lookup(e) ==
  /\ running = Idle
  /\ nreq < MaxReq
  /\ nreq' = nreq + 1
  /\ pc[e] # "unused"
  /\ lookup' = [id |-> e, found |-> GetExecutionResults(e), at |-> Position(e)]
  /\ UNCHANGED <<execVars, wsVars, chatVars>>

\* ------------------------------------------------------------- strings
\* A Python str is a sequence of one-character strings; LF is the newline
\* and BQ the backquote.
LF == "LF"
UpperCase == <<"A","B","C","D","E","F","G","H","I","J","K","L","M",
               "N","O","P","Q","R","S","T","U","V","W","X","Y","Z">>
LowerCase == <<"a","b","c","d","e","f","g","h","i","j","k","l","m",
               "n","o","p","q","r","s","t","u","v","w","x","y","z">>

\* str.lower()
LowerChar(ch) ==
  IF \E k \in 1..26 : UpperCase[k] = ch
    THEN LowerCase[CHOOSE k \in 1..26 : UpperCase[k] = ch] ELSE ch
Lower(str) == [k \in 1..Len(str) |-> LowerChar(str[k])]

\* sub in str
Contains(str, sub) ==
  \E k \in 1..(Len(str) - Len(sub) + 1) : SubSeq(str, k, k + Len(sub) - 1) = sub

IsSpace(ch) == ch \in {" ", LF}

\* str.strip()
Strip(str) ==
  LET keep == {k \in 1..Len(str) : ~IsSpace(str[k])}
  IN  IF keep = {} THEN <<>>
      ELSE SubSeq(str, Min(keep), CHOOSE k \in keep : \A j \in keep : j <= k)

BQ == "BQ"
Fence == <<BQ, BQ, BQ>>
Sp    == <<" ">>
Nl    == <<LF>>

\* ---------------------------------------------- ChatHandler: classification
run_commands ==
  { <<"r","u","n"," ","i","t">>,
    <<"e","x","e","c","u","t","e"," ","i","t">>,
    <<"r","u","n"," ","t","h","i","s">>,
    <<"e","x","e","c","u","t","e"," ","t","h","i","s">>,
    <<"r","u","n"," ","t","h","e"," ","c","o","d","e">>,
    <<"e","x","e","c","u","t","e"," ","t","h","e"," ","c","o","d","e">>,
    <<"r","u","n"," ","t","h","a","t"," ","c","o","d","e">>,
    <<"r","u","n"," ","t","h","e"," ","p","r","o","g","r","a","m">>,
    <<"e","x","e","c","u","t","e"," ","t","h","e"," ","p","r","o","g","r","a","m">> }

\* ChatHandler._is_run_previous_code_request
IsRunPreviousCodeRequest(message) ==
  \E cmd \in run_commands : Contains(Lower(message), cmd)

\* The matches of the pattern of line 129 (three backquotes, c or C, \s*, a
\* newline, the lazy group, a newline, three backquotes; re.IGNORECASE) that
\* start at position i: <<j, k>> where \s* ends before the newline at j and
\* the group is message[j+1 .. k-1], followed by the closing newline at k.
FenceAt(m, i) == i >= 1 /\ i + 2 <= Len(m) /\ SubSeq(m, i, i + 2) = Fence
MatchesAt(m, i) ==
  IF FenceAt(m, i) /\ i + 3 <= Len(m) /\ LowerChar(m[i + 3]) = "c"
    THEN { jk \in ((i + 4)..Len(m)) \X ((i + 6)..Len(m)) :
             /\ \A x \in (i + 4)..(jk[1] - 1) : IsSpace(m[x])
             /\ m[jk[1]] = LF
             /\ jk[2] >= jk[1] + 2
             /\ m[jk[2]] = LF
             /\ FenceAt(m, jk[2] + 1) }
    ELSE {}

\* the group of the match the regex engine returns at i: \s* is greedy (the
\* last possible j), the group is lazy (then the first possible k)
GroupAt(m, i) ==
  LET ms == MatchesAt(m, i)
      j  == CHOOSE x \in {jk[1] : jk \in ms} : \A y \in {jk[1] : jk \in ms} : y <= x
      k  == Min({jk[2] : jk \in {q \in ms : q[1] = j}})
  IN  SubSeq(m, j + 1, k - 1)

NoCodeInfo == <<>>

\* an extraction that returns the tag as the message wrote it
ExtractCodeAsTagged(message) ==
  LET starts == {i \in 1..Len(message) : MatchesAt(message, i) # {}}
  IN  IF starts = {} THEN NoCodeInfo
      ELSE <<message[Min(starts) + 3], Strip(GroupAt(message, Min(starts)))>>
\* ChatHandler._extract_code: the first match, stripped, tagged "c"; or None
ExtractCode(message) ==
  LET starts == {i \in 1..Len(message) : MatchesAt(message, i) # {}}
  IN  IF starts = {} THEN NoCodeInfo
      ELSE <<"c", Strip(GroupAt(message, Min(starts)))>>

\* --------------------------------------------------------- CodeGenerator
\* str.split(newline)
RECURSIVE Split(_)
Split(str) ==
  IF ~\E k \in 1..Len(str) : str[k] = LF THEN <<str>>
  ELSE LET k == Min({x \in 1..Len(str) : str[x] = LF})
       IN  <<SubSeq(str, 1, k - 1)>> \o Split(SubSeq(str, k + 1, Len(str)))

\* newline.join(lines)
RECURSIVE Join(_)
Join(lines) ==
  IF lines = <<>> THEN <<>>
  ELSE IF Len(lines) = 1 THEN lines[1]
  ELSE lines[1] \o Nl \o Join(Tail(lines))

\* CodeGenerator.generate_code, lines 34-40: the fence lines are dropped
CleanCode(generated_code) ==
  LET l0 == Split(generated_code)
      l1 == IF l0 # <<>> /\ Contains(l0[1], Fence) THEN Tail(l0) ELSE l0
      l2 == IF l1 # <<>> /\ Contains(l1[Len(l1)], Fence)
              THEN SubSeq(l1, 1, Len(l1) - 1) ELSE l1
  IN  Join(l2)

Raise == <<"raise">>      \* the call raises an exception

\* what the model can answer to generate_code, or the call raises
RawGenerations ==
  { Fence \o <<"c">> \o Nl \o <<"g">> \o Nl \o Fence,  \* a fenced block holding g
    Fence,                                             \* a lone fence
    Raise }

\* what classify_request returns, or the call raises
Classifications == {"yes", "no", "raise"}

\* what generate_chat_response returns, or the call raises
ChatReplies == {<<"o", "k">>, Raise}

\* ---------------------------------------------------------- the messages
SessionIds == {"default"}

Messages ==
  { <<"h", "i">>,                                               \* "hi"
    <<"r", "u", "n", " ", "i", "t">>,                           \* "run it"
    Fence \o <<"c">> \o Nl \o <<"x">> \o Nl \o Fence,             \* a c block holding x
    <<"R", "U", "N", " ", "I", "T">> \o Nl \o
      Fence \o <<"C">> \o Sp \o Nl \o <<" ", "y", " ">> \o Nl \o Fence,
                                                                \* "RUN IT", then a C block holding " y "
    Fence \o <<"c">> \o Nl \o Sp \o Nl \o Fence,                 \* a c block holding a blank
    Fence \o <<"c", "p", "p">> \o Nl \o <<"z">> \o Nl \o Fence }  \* a cpp block holding z

\* the two tests of process_message on each message of the model
IsRunPrevious == [m \in Messages |-> IsRunPreviousCodeRequest(m)]
CodeInfo      == [m \in Messages |-> ExtractCode(m)]

\* ------------------------------------------------------------ ChatHandler
None == <<"None">>

\* the session made by lines 15-20
NewSession == [last_generated_code |-> None, language |-> "c", history |-> <<>>]

\* a handler that makes a session for every message
FreshSession(sid) == NewSession
\* lines 15-21: the session of sid, made when it is not there
SessionOf(sid) == IF sid \in DOMAIN sessions THEN sessions[sid] ELSE NewSession

Turn(role, content) == [role |-> role, content |-> content]

\* session["history"].append(...)
AppendTurn(session, role, content) ==
  [session EXCEPT !.history = Append(@, Turn(role, content))]

\* a test of the trigger phrase alone
HasCodeAlways(session) == TRUE
\* the truth value of session["last_generated_code"]
HasCode(session) ==
  session.last_generated_code # None /\ session.last_generated_code # <<>>

\* language.lower() in ["c", ""]
CanExecute(language) == language \in {"c", "C", ""}

ExecutingPrevious == "Executing previously generated code."
ReceivedCode      == "Received code to execute."

TextResponse(content) == [type |-> "text", content |-> content]

\* the dict returned at lines 41-48 and 72-79
ExecutionResponse(code, e, r) ==
  [type |-> "code_execution",
   content |-> IF r.status_code = 0 THEN r.output ELSE r.error,
   code |-> code,
   status |-> IF r.status_code = 0 THEN "success" ELSE "error",
   execution_time |-> r.execution_time,
   execution_id |-> e]

\* the dict returned at lines 98-102
GenerationResponse(code) ==
  [type |-> "code_generation", content |-> code,
   message |-> "Here's the generated C code based on your request:"]

NoResponse == [type |-> "none"]
Raised     == [type |-> "raised"]   \* process_message raised an exception
\* the frame of the last process_message call: its arguments, the branch
\* taken, the code and id passed to execute_c_code, the session as it was on
\* entry, whether generate_code or generate_chat_response raised, and what
\* classify_request did ("none" when it was not called)
NoChat == [state |-> "idle", sid |-> "", message |-> <<>>, input_data |-> "",
           branch |-> "none", code |-> <<>>, id |-> 0, before |-> NewSession,
           failed |-> FALSE, cls |-> "none"]

\* await self.code_executor.execute_c_code(code, input_data=input_data,
\* execution_id=execution_id): the call is made without websocket_manager
CallExecute(sid, message, branch, code, input_data) ==
  LET e == NewExecutionId IN
    /\ tally' = [tally EXCEPT ![sid].msgs = @ + 1]
    /\ pc' = [pc EXCEPT ![e] = "ready"]
    /\ args' = [args EXCEPT ![e] = [code |-> code, input |-> input_data,
                                    manager |-> FALSE]]
    /\ running' = e
    /\ chat' = [state |-> "executing", sid |-> sid, message |-> message,
                input_data |-> input_data, branch |-> branch, code |-> code,
                id |-> e, before |-> SessionOf(sid), failed |-> FALSE,
                cls |-> "none"]
    /\ UNCHANGED response

\* process_message returns resp without calling the executor
ReturnNow(sid, message, input_data, branch, cls, resp, failed) ==
  /\ response' = resp
  /\ tally' = [tally EXCEPT ![sid].msgs = @ + 1,
                            ![sid].failed = IF failed THEN @ + 1 ELSE @]
  /\ chat' = [state |-> "idle", sid |-> sid, message |-> message,
              input_data |-> input_data, branch |-> branch, code |-> <<>>,
              id |-> 0, before |-> SessionOf(sid), failed |-> failed,
              cls |-> cls]
  /\ UNCHANGED <<pc, args, running>>

\* lines 26-53
RunPrevious(sid, message, input_data, session) ==
  /\ sessions' = SetKey(sessions, sid,
                        AppendTurn(session, "assistant", ExecutingPrevious))
  /\ IF CanExecute(session.language)
       THEN CallExecute(sid, message, "run_previous",
                        session.last_generated_code, input_data)
       ELSE ReturnNow(sid, message, input_data, "run_previous", "none",
                      TextResponse("Sorry, I can only execute C code right now."), FALSE)

\* the session after lines 60-63
WithProvidedCode(session, code_info) ==
  AppendTurn([session EXCEPT !.last_generated_code = code_info[2],
                             !.language = code_info[1]],
             "assistant", ReceivedCode)

\* lines 55-84
ProvideAndRun(sid, message, input_data, session, code_info) ==
  /\ sessions' = SetKey(sessions, sid, WithProvidedCode(session, code_info))
  /\ IF CanExecute(code_info[1])
       THEN CallExecute(sid, message, "provide_and_run", code_info[2], input_data)
       ELSE ReturnNow(sid, message, input_data, "provide_and_run", "none",
                      TextResponse("Sorry, I can only execute C code right now."), FALSE)

\* a branch that shows the code without storing it
WithGeneratedTurn(session, code) == AppendTurn(session, "assistant", code)
\* the session after lines 95-97
WithGeneratedCode(session, code) ==
  AppendTurn([session EXCEPT !.last_generated_code = code, !.language = "c"],
             "assistant", code)

\* the session after the handler of lines 103-107: nothing is appended
FailedGeneration(session) == session

\* lines 92-107
Generate(sid, message, input_data, session, cls, raw) ==
  IF raw = Raise
    THEN /\ sessions' = SetKey(sessions, sid, FailedGeneration(session))
         /\ ReturnNow(sid, message, input_data, "generate", cls,
                      TextResponse("Failed to generate code"), TRUE)
    ELSE /\ sessions' = SetKey(sessions, sid,
                               WithGeneratedCode(session, CleanCode(raw)))
         /\ ReturnNow(sid, message, input_data, "generate", cls,
                      GenerationResponse(CleanCode(raw)), FALSE)

\* a branch that returns the reply without recording it
WithoutReply(session, reply) == session
\* the session after line 112
WithReply(session, reply) == AppendTurn(session, "assistant", reply)

\* a handler that records the failure as an assistant turn
FailedChatAppends(session) == AppendTurn(session, "assistant", <<"Chat error">>)
\* the session after the handler of lines 117-121: nothing is appended
FailedChat(session) == session

\* lines 108-121
Converse(sid, message, input_data, session, cls, reply) ==
  IF reply = Raise
    THEN /\ sessions' = SetKey(sessions, sid, FailedChat(session))
         /\ ReturnNow(sid, message, input_data, "converse", cls,
                      TextResponse("Chat error"), TRUE)
    ELSE /\ sessions' = SetKey(sessions, sid, WithReply(session, reply))
         /\ ReturnNow(sid, message, input_data, "converse", cls,
                      TextResponse(reply), FALSE)

\* a handler that takes a classifier failure for a code request
IsCodeRequestUnlessNo(cls) == cls # "no"
\* lines 87-90: a classifier that raises counts as "no"
IsCodeRequest(cls) == cls = "yes"

\* the branches with the test for a code block made first
RouteBlockFirst(sid, message, input_data, session) ==
  IF CodeInfo[message] # NoCodeInfo
    THEN ProvideAndRun(sid, message, input_data, session, CodeInfo[message])
  ELSE IF IsRunPrevious[message] /\ HasCode(session)
    THEN RunPrevious(sid, message, input_data, session)
  ELSE \E cls \in Classifications :
         IF IsCodeRequest(cls)
           THEN \E raw \in RawGenerations :
                  Generate(sid, message, input_data, session, cls, raw)
           ELSE \E reply \in ChatReplies :
                  Converse(sid, message, input_data, session, cls, reply)

\* the four branches of process_message, in the order the code tests them;
\* what classify_request, generate_code and generate_chat_response do is
\* chosen when the call is made
Route(sid, message, input_data, session) ==
  IF IsRunPrevious[message] /\ HasCode(session)
    THEN RunPrevious(sid, message, input_data, session)
  ELSE IF CodeInfo[message] # NoCodeInfo
    THEN ProvideAndRun(sid, message, input_data, session, CodeInfo[message])
  ELSE \E cls \in Classifications :
         IF IsCodeRequest(cls)
           THEN \E raw \in RawGenerations :
                  Generate(sid, message, input_data, session, cls, raw)
           ELSE \E reply \in ChatReplies :
                  Converse(sid, message, input_data, session, cls, reply)

\* POST /api/chat: the server creates the task of process_chat_message; the
\* event loop starts the tasks it holds in the order they were created
PostChat(sid, message, input_data) ==
  /\ running = Idle
  /\ nreq < MaxReq
  /\ nmsgs < MaxMsgs
  /\ nreq' = nreq + 1
  /\ lookup' = lookup
  /\ nmsgs' = nmsgs + 1
  /\ inbox' = Append(inbox, [session_id |-> sid, message |-> message,
                             input_data |-> input_data])
  /\ arrived' = [arrived EXCEPT ![sid] = Append(@, message)]
  /\ UNCHANGED <<execVars, wsVars, sessions, response, chat, tally>>

\* a scheduler that starts the newest task first
NewestRequest(requests) == requests[Len(requests)]
\* the request whose task the event loop starts next
NextRequest(requests) == Head(requests)

\* process_chat_message -> ChatHandler.process_message, up to its return or
\* to its call of execute_c_code
ProcessMessage ==
  /\ running = Idle
  /\ inbox # <<>>
  /\ inbox' = Tail(inbox)
  /\ LET req == NextRequest(inbox) IN
       Route(req.session_id, req.message, req.input_data,
             AppendTurn(SessionOf(req.session_id), "user", req.message))
  /\ UNCHANGED <<gcc_available, trail, execution_results, active_connections, result,
                 start_time, now, temp_dir, fs, bc, published, wsVars,
                 arrived, nmsgs, nreq, lookup>>

\* execute_c_code has returned to process_message (lines 41-48, 72-79), or has
\* raised, and process_message with it
ExecuteReturned ==
  /\ running = ChatTask
  /\ chat.state = "executing"
  /\ response' = IF pc[chat.id] = "raised" THEN Raised
                 ELSE ExecutionResponse(chat.code, chat.id, result[chat.id])
  /\ chat' = [chat EXCEPT !.state = "idle"]
  /\ running' = Idle
  /\ UNCHANGED <<gcc_available, trail, execution_results, active_connections, pc, result,
                 start_time, now, temp_dir, fs, args, bc, published, wsVars,
                 sessions, tally, inbox, arrived, nmsgs, nreq, lookup>>

\* ------------------------------------------------------------------ Init
NoArgs == [code |-> "", input |-> "", manager |-> FALSE]

Init ==
  /\ gcc_available \in BOOLEAN
  /\ execution_results = <<>>
  /\ active_connections = <<>>
  /\ pc = [e \in ExecIds |-> "unused"]
  /\ running = Idle
  /\ result = [e \in ExecIds |-> InitialResult]
  /\ start_time = [e \in ExecIds |-> 0]
  /\ now = 0
  /\ temp_dir = [e \in ExecIds |-> NoDir]
  /\ fs = {}
  /\ args = [e \in ExecIds |-> NoArgs]
  /\ bc = [e \in ExecIds |-> NoBc]
  /\ published = [e \in ExecIds |-> <<>>]
  /\ trail = [e \in ExecIds |-> <<>>]
  /\ wpc = [w \in Channels |-> "unused"]
  /\ wid = [w \in Channels |-> 0]
  /\ broken = [w \in Channels |-> FALSE]
  /\ received = [w \in Channels |-> <<>>]
  /\ joined_after = [w \in Channels |-> FALSE]
  /\ sessions = <<>>
  /\ response = NoResponse
  /\ chat = NoChat
  /\ tally = [sid \in SessionIds |-> [msgs |-> 0, failed |-> 0]]
  /\ inbox = <<>>
  /\ arrived = [sid \in SessionIds |-> <<>>]
  /\ nmsgs = 0
  /\ nreq = 0
  /\ lookup = NoLookup

\* what clients do: POST /api/execute, websocket connections opened, closed
\* and broken
ExecRequests ==
  \/ \E c \in Codes, i \in Inputs : ExecuteCode(c, i)
  \/ \E e \in ExecIds : WsOpen(e)
  \/ \E w \in Channels : WsDisconnect(w)
  \/ \E w \in Channels : Break(w)

\* the steps of execute_c_code, which a process_message call drives too
EngineSteps ==
  \/ \E e \in ExecIds : Start(e)
  \/ \E e \in ExecIds : WriteSource(e)
  \/ \E e \in ExecIds : Compile(e)
  \/ \E e \in ExecIds : Run(e)
  \/ \E e \in ExecIds : Except(e)
  \/ \E e \in ExecIds : Finally(e)

\* the steps of broadcast and of websocket_endpoint
ManagerSteps ==
  \/ \E e \in ExecIds : BroadcastResume(e)
  \/ \E w \in Channels : WsAccept(w)

\* the input_data of a chat request: none, or a line for the program
ChatInputs == {"", "7"}

\* POST /api/chat; a client sends input with the messages that ask for a run
ChatRequests(msgs, inputs) ==
  \E sid \in SessionIds, m \in msgs, i \in inputs :
    /\ i # "" => IsRunPrevious[m]
    /\ PostChat(sid, m, i)

\* the steps of process_message
ChatSteps ==
  \/ ProcessMessage
  \/ ExecuteReturned

\* two messages that make process_message call the executor: a c block
\* holding x, and "run it"
RunMessages ==
  {m \in Messages : CodeInfo[m] = <<"c", <<"x">> >> \/ (IsRunPrevious[m] /\ CodeInfo[m] = NoCodeInfo)}

\* what a client that polls does: POST /api/execute, a websocket opened, and
\* GET /api/results
LookupRequests ==
  \/ \E c \in Codes, i \in Inputs : ExecuteCode(c, i)
  \/ \E e \in ExecIds : WsOpen(e)
  \/ \E e \in ExecIds : Lookup(e)

NextLookup == (nreq < MaxMix /\ LookupRequests) \/ EngineSteps \/ ManagerSteps
NextExec == ExecRequests \/ EngineSteps \/ ManagerSteps
NextChat == ChatRequests(Messages, ChatInputs) \/ ChatSteps \/ EngineSteps
Next ==
  \/ nreq < MaxMix /\ (ExecRequests \/ ChatRequests(RunMessages, Inputs))
  \/ EngineSteps
  \/ ManagerSteps
  \/ ChatSteps

\* the engine, the connection manager and the websocket endpoint
SpecExec == Init /\ [][NextExec]_vars
\* the chat handler and the executions it makes
SpecChat == Init /\ [][NextChat]_vars
\* all of them together, under the smaller budget MaxMix
Spec     == Init /\ [][Next]_vars
\* the engine and the manager with clients that look results up, under the
\* budget MaxMix
SpecLookup == Init /\ [][NextLookup]_vars
\* SpecExec with the scheduling of the event loop: a task that can run is
\* run, and a send or an accept that is awaited completes
SpecLive ==
  /\ Init /\ [][NextExec]_vars
  /\ WF_vars(EngineSteps)
  /\ WF_vars(ManagerSteps)

\* ================================================================ claims
Statuses(e) == [k \in 1..Len(published[e]) |-> published[e][k].status]
IsPrefix(s, t) == Len(s) <= Len(t) /\ SubSeq(t, 1, Len(s)) = s
Registered(w, e) ==
  e \in DOMAIN active_connections /\ InSeq(w, active_connections[e])
CompletedCount(w) ==
  Cardinality({k \in 1..Len(received[w]) : received[w][k].status = "completed"})
StoredCode(session) == session.last_generated_code \notin {None, <<>>}
CountRole(history, role) ==
  Cardinality({k \in 1..Len(history) : history[k].role = role})

\* C1 as the spec states it: the events published for an id follow
\* starting -> compiling -> (compile_error | running -> (completed | error)),
\* or a lone error, and nothing follows compile_error, error or completed.
C1_SpecTraces ==
  { <<"error">>,
    <<"starting", "compiling", "compile_error">>,
    <<"starting", "compiling", "running", "completed">>,
    <<"starting", "compiling", "running", "error">> }
C1_TerminalEvents ==
  \A e \in ExecIds : \E t \in C1_SpecTraces : IsPrefix(Statuses(e), t)

\* C1 (amended): the events published for an id follow
\* starting -> compiling -> (compile_error | running) -> completed; a fault
\* while writing or compiling publishes error in place of the remaining
\* steps, and completed follows it; without gcc a lone error is published.
\* completed and the lone error are the last event of their id, and a
\* finished execution has published one of these sequences in full.
C1_CodeTraces ==
  { <<"starting", "compiling", "compile_error", "completed">>,
    <<"starting", "compiling", "running", "completed">>,
    <<"starting", "error", "completed">>,
    <<"starting", "compiling", "error", "completed">> }
C1_EventOrder ==
  \A e \in ExecIds :
    LET s == Statuses(e) IN
      /\ gcc_available => \E t \in C1_CodeTraces : IsPrefix(s, t)
      /\ ~gcc_available => IsPrefix(s, <<"error">>)
      /\ (pc[e] = "done" /\ args[e].manager) =>
           s \in (IF gcc_available THEN C1_CodeTraces ELSE {<<"error">>})
C1_Witness ==
  \E e \in ExecIds :
    /\ pc[e] = "done"
    /\ Statuses(e) = <<"starting", "compiling", "compile_error", "completed">>

\* C2: a result that is stored stays stored and keeps every field, and the
\* dict object it is (the local result of its call) is not written again,
\* whatever step is taken.
C2_RecordImmutable ==
  [][\A e \in DOMAIN execution_results :
       /\ e \in DOMAIN execution_results'
       /\ execution_results'[e] = execution_results[e]
       /\ result'[e] = execution_results[e]]_vars
C2_Witness ==
  \E e1, e2 \in DOMAIN execution_results :
    /\ args[e1].manager /\ ~args[e2].manager
    /\ \E w \in Channels : wpc[w] = "open" /\ wid[w] \in {e1, e2}

\* C3: a connection that is registered for a finished execution and whose
\* delivery works has received a completed event carrying the stored result.
C3_NoSubscriberMisses ==
  \A w \in Channels :
    (/\ wpc[w] = "open" /\ ~broken[w]
     /\ pc[wid[w]] = "done"
     /\ Registered(w, wid[w]))
    => \E k \in 1..Len(received[w]) :
         received[w][k] = CompletedEvent(execution_results[wid[w]])

\* C4: a connection that joined after the result was stored has received the
\* stored result first, and exactly one completed event.
C4_ExactlyOneReplay ==
  \A w \in Channels :
    joined_after[w] =>
      /\ received[w][1] = CompletedEvent(execution_results[wid[w]])
      /\ CompletedCount(w) = 1

\* C5: when the loop of a broadcast call has run through its list, every
\* connection that was registered for the id when the call was made, is still
\* registered and did not fail has received the message.
C5_PublishReachesAll ==
  \A e \in ExecIds :
    (pc[e] = "broadcast" /\ bc[e].i >= Len(BcList(e))) =>
      \A k \in 1..Len(bc[e].at_call) :
        (Registered(bc[e].at_call[k], e) /\ ~InSeq(bc[e].at_call[k], bc[e].disc))
        => InSeq(bc[e].ev, received[bc[e].at_call[k]])

\* C6: a connection receives the events of its id in the order they were
\* published: of two events it has received, the one received first was not
\* published after the other.
PublishedAt(e, ev) ==
  IF InSeq(ev, published[e])
    THEN CHOOSE k \in 1..Len(published[e]) : published[e][k] = ev
    ELSE 0
C6_PublishOrder ==
  \A w \in Channels :
    LET at == [k \in 1..Len(received[w]) |-> PublishedAt(wid[w], received[w][k])]
    IN  \A q \in 2..Len(received[w]) : \A p \in 1..(q - 1) :
          (at[p] # 0 /\ at[q] # 0) => at[p] <= at[q]
C6_Witness ==
  \E w \in Channels : Len(received[w]) = 4 /\ received[w] = published[wid[w]]

\* C7 as the spec states it: after N messages to a session its history has
\* exactly 2N entries.
C7_TwoPerMessage ==
  \A sid \in DOMAIN sessions :
    Len(sessions[sid].history) = 2 * tally[sid].msgs

\* C7 (amended): after N messages to a session, F of which ended in a failed
\* generate_code or generate_chat_response call, the history has exactly
\* 2N - F entries: N user turns and N - F assistant turns.
C7_TurnsPerMessage ==
  /\ \A sid \in SessionIds \ DOMAIN sessions : tally[sid].msgs = 0
  /\ \A sid \in DOMAIN sessions :
       /\ Len(sessions[sid].history) = 2 * tally[sid].msgs - tally[sid].failed
       /\ CountRole(sessions[sid].history, "user") = tally[sid].msgs
       /\ CountRole(sessions[sid].history, "assistant") =
            tally[sid].msgs - tally[sid].failed
C7_Witness ==
  \E sid \in DOMAIN sessions :
    /\ tally[sid].msgs = 2 /\ tally[sid].failed = 1
    /\ Len(sessions[sid].history) = 3

\* C8: when generate_code or generate_chat_response raised, process_message
\* returned a text response that describes the failure, and the session is
\* the session as it was on entry plus the user turn: no assistant turn, the
\* same last code and language.
C8_FailureKeepsSession ==
  chat.failed =>
    /\ response \in {TextResponse("Failed to generate code"),
                     TextResponse("Chat error")}
    /\ sessions[chat.sid] = AppendTurn(chat.before, "user", chat.message)
C8_Witness ==
  /\ chat.failed
  /\ chat.branch = "generate"
  /\ StoredCode(chat.before)
  /\ response = TextResponse("Failed to generate code")

\* C9 as the spec states it: a message with a run phrase, sent to a session
\* that holds stored code, takes the run_previous branch.
C9_RunPhraseRuns ==
  (/\ chat.branch # "none"
   /\ IsRunPrevious[chat.message]
   /\ chat.before.last_generated_code # None)
  => chat.branch = "run_previous"

\* C9 (amended): a message with a run phrase, sent to a session whose stored
\* code is not empty, takes the run_previous branch and runs that code,
\* whatever else the message holds.
C9_RunPreviousFirst ==
  (/\ chat.branch # "none"
   /\ IsRunPrevious[chat.message]
   /\ StoredCode(chat.before))
  => /\ chat.branch = "run_previous"
     /\ chat.code = chat.before.last_generated_code
C9_Witness ==
  /\ chat.branch = "run_previous"
  /\ CodeInfo[chat.message] # NoCodeInfo
  /\ chat.code = chat.before.last_generated_code

\* C10 as the spec states it: a message with a fenced c block takes the
\* provide_and_run branch in every session state.
C10_BlockRuns ==
  (chat.branch # "none" /\ CodeInfo[chat.message] # NoCodeInfo)
  => chat.branch = "provide_and_run"

\* C10 (amended): a message with a fenced c block takes the provide_and_run
\* branch, and the code of its first block is stored and is the code
\* executed, unless the message holds a run phrase too and the stored code of
\* the session is not empty.
C10_ProvideAndRun ==
  (/\ chat.branch # "none"
   /\ CodeInfo[chat.message] # NoCodeInfo
   /\ ~(IsRunPrevious[chat.message] /\ StoredCode(chat.before)))
  => /\ chat.branch = "provide_and_run"
     /\ chat.code = CodeInfo[chat.message][2]
     /\ sessions[chat.sid].last_generated_code = CodeInfo[chat.message][2]
C10_Witness ==
  /\ chat.branch = "provide_and_run"
  /\ IsRunPrevious[chat.message]
  /\ chat.state = "idle"

\* C11 as the spec states it: the messages of a session are processed one at
\* a time in arrival order, and every user turn is directly followed by an
\* assistant turn.
IsUserTurn(t) == t.role = "user"
UserContents(history) ==
  LET users == SelectSeq(history, IsUserTurn)
  IN  [k \in 1..Len(users) |-> users[k].content]
C11_EveryTurnAnswered ==
  \A sid \in DOMAIN sessions :
    LET h == sessions[sid].history IN
      /\ UserContents(h) = SubSeq(arrived[sid], 1, tally[sid].msgs)
      /\ \A k \in 1..Len(h) :
           h[k].role = "user" => (k < Len(h) /\ h[k + 1].role = "assistant")

\* C11 (amended): the messages of a session are processed one at a time in
\* arrival order, also when a later request arrived before an earlier one
\* returned: the user turns of the history are the arrived messages in
\* arrival order, every assistant turn directly follows a user turn, the
\* user turns without an assistant turn are those of the failed calls, and
\* a call leaves the history it found plus its own user turn and, unless its
\* generate or chat call failed, its own assistant turn.
OwnTurns(before, after) ==
  SubSeq(after.history, Len(before.history) + 1, Len(after.history))
C11_Serialized ==
  /\ \A sid \in DOMAIN sessions :
       LET h == sessions[sid].history IN
         /\ UserContents(h) = SubSeq(arrived[sid], 1, tally[sid].msgs)
         /\ \A k \in 1..Len(h) :
              h[k].role = "assistant" => (k > 1 /\ h[k - 1].role = "user")
         /\ Cardinality({k \in 1..Len(h) :
                           /\ h[k].role = "user"
                           /\ (k = Len(h) \/ h[k + 1].role = "user")})
              = tally[sid].failed
  /\ chat.branch # "none" =>
       LET after == sessions[chat.sid]
           own   == OwnTurns(chat.before, after)
       IN  /\ SubSeq(after.history, 1, Len(chat.before.history)) = chat.before.history
           /\ Len(own) = (IF chat.failed THEN 1 ELSE 2)
           /\ own[1] = Turn("user", chat.message)
           /\ ~chat.failed => own[2].role = "assistant"
C11_Witness ==
  /\ chat.state = "executing"
  /\ inbox # <<>>
  /\ inbox[1].session_id = chat.sid
  /\ inbox[1].message # chat.message

\* C12: while the compile or run step of one execution is in progress (its
\* task is inside subprocess.run), a broadcast of another execution that
\* waits on a delivery can resume, and the next execution waiting to start
\* can start.
C12_NoBlocking ==
  \A e \in ExecIds :
    pc[e] \in {"compile", "run"} =>
      \A other \in ExecIds \ {e} :
        /\ pc[other] = "broadcast" => ENABLED BroadcastResume(other)
        /\ (pc[other] = "ready" /\ other = Min({x \in ExecIds : pc[x] = "ready"}))
             => ENABLED Start(other)

\* C13: every transition of every execution is published for its id: an
\* execution that created its workspace has published starting, one that
\* reached the compile step has published compiling, and one that has
\* finished has published completed or, without gcc, error; this holds for
\* the calls made by execute_code and by process_message alike.
C13_EveryTransitionPublished ==
  \A e \in ExecIds :
    /\ temp_dir[e] # NoDir => InSeq(StatusEvent("starting"), published[e])
    /\ trail[e] # <<>> => InSeq(StatusEvent("compiling"), published[e])
    /\ pc[e] = "done" =>
         \E k \in 1..Len(published[e]) :
           published[e][k].status \in {"completed", "error"}

\* C14: no call of execute_c_code ends by raising: a call that has ended has
\* returned, its record is stored under its id, and process_message did not
\* raise to its caller.
C14_NoFailurePropagates ==
  /\ response # Raised
  /\ \A e \in ExecIds :
       pc[e] \in {"done", "raised"} =>
         /\ pc[e] = "done"
         /\ e \in DOMAIN execution_results
         /\ execution_results[e] = result[e]

\* C15: when the record of an execution is stored or its completed event is
\* published, its workspace does not exist any more; the workspaces that
\* exist belong to executions still in flight.
InFlight(e) == pc[e] \notin {"unused", "ready", "done", "raised"}
C15_WorkspaceRemoved ==
  /\ \A e \in ExecIds :
       (e \in DOMAIN execution_results \/ pc[e] = "done") => temp_dir[e] \notin fs
  /\ \A d \in fs : \E e \in ExecIds : InFlight(e) /\ temp_dir[e] = d

\* C16: without gcc a call creates no workspace and makes no compile or run
\* step; it stores a record with the fixed message, a nonzero status_code and
\* no output, and returns after the broadcast of that error.
C16_UnavailableReturnsAtOnce ==
  ~gcc_available =>
    /\ fs = {}
    /\ \A e \in ExecIds :
         /\ temp_dir[e] = NoDir
         /\ trail[e] = <<>>
         /\ pc[e] \in {"unused", "ready", "broadcast", "done"}
         /\ pc[e] \in {"broadcast", "done"} =>
              /\ e \in DOMAIN execution_results
              /\ execution_results[e].error
                   = "GCC compiler is not available. Please install GCC."
              /\ execution_results[e].status_code # 0
              /\ execution_results[e].output = ""
              /\ result[e] = execution_results[e]
              /\ Len(published[e]) <= 1
C16_Witness ==
  /\ ~gcc_available
  /\ \E e1, e2 \in DOMAIN execution_results :
       pc[e1] = "done" /\ pc[e2] = "done" /\ args[e1].manager /\ ~args[e2].manager

\* C17: when the compiler exits nonzero no run step is made, and the record
\* has the compiler's stderr as error, its exit code as status_code and no
\* output, also when it is stored.
CompileFailed(e) ==
  /\ trail[e] # <<>>
  /\ trail[e][1].did.kind = "exit"
  /\ trail[e][1].did.rc # 0
C17_CompileErrorStops ==
  \A e \in ExecIds :
    CompileFailed(e) =>
      /\ Len(trail[e]) = 1
      /\ pc[e] \in {"broadcast", "finally", "done"}
      /\ result[e].error = trail[e][1].did.stderr
      /\ result[e].status_code = trail[e][1].did.rc
      /\ result[e].output = ""
      /\ pc[e] = "done" =>
           /\ e \in DOMAIN execution_results
           /\ execution_results[e] = result[e]
C17_Witness ==
  \E e \in ExecIds :
    /\ CompileFailed(e) /\ pc[e] = "done"
    /\ execution_results[e].error = "program.c: error"

\* C18: when the run step times out the call goes on to its end: the record
\* has status_code 1 and the fixed timeout message, and it is stored once
\* the finally block has run; no compile step ever times out.
TimedOut(e) ==
  \E k \in 1..Len(trail[e]) :
    trail[e][k].step = "run" /\ trail[e][k].did.kind = "timeout"
C18_TimeoutIsTerminal ==
  \A e \in ExecIds :
    /\ \A k \in 1..Len(trail[e]) :
         trail[e][k].did.kind = "timeout" => trail[e][k].step = "run"
    /\ TimedOut(e) =>
         /\ pc[e] \in {"finally", "broadcast", "done"}
         /\ result[e].status_code = 1
         /\ result[e].error = "Execution timed out after 10 seconds"
         /\ pc[e] \in {"broadcast", "done"} =>
              /\ e \in DOMAIN execution_results
              /\ execution_results[e] = result[e]
C18_Witness ==
  \E e \in ExecIds :
    /\ TimedOut(e) /\ pc[e] = "done"
    /\ execution_results[e].status_code = 1

\* C19: every execution that was submitted ends: under the scheduling of
\* SpecLive its call eventually has returned with its record stored under
\* its id.
C19_EveryExecutionEnds ==
  \A e \in ExecIds :
    (pc[e] = "ready") ~> (pc[e] = "done" /\ e \in DOMAIN execution_results)

\* C20: two executions in flight never hold the same workspace, and whatever
\* changes the record or the workspace of an execution is a step of that
\* execution and of no other.
\* e has made its workspace and has not come to the rmtree of its finally block
HasWorkspace(e) ==
  InFlight(e) /\ temp_dir[e] # NoDir /\ e \notin DOMAIN execution_results
C20_IndependentExecutions ==
  [][/\ \A e1, e2 \in ExecIds :
          (e1 # e2 /\ HasWorkspace(e1) /\ HasWorkspace(e2))
          => temp_dir[e1] # temp_dir[e2]
     /\ \A e \in ExecIds :
          (\/ result'[e] # result[e]
           \/ temp_dir'[e] # temp_dir[e]
           \/ (HasWorkspace(e) /\ temp_dir[e] \in fs /\ temp_dir[e] \notin fs')
           \/ (e \in DOMAIN execution_results /\ execution_results'[e] # result[e]))
          => /\ pc'[e] # pc[e]
             /\ \A other \in ExecIds \ {e} : pc'[other] = pc[other]]_vars
C20_Witness ==
  \E e1, e2 \in ExecIds :
    /\ e1 # e2 /\ HasWorkspace(e1) /\ HasWorkspace(e2)
    /\ args[e1].code = args[e2].code
    /\ temp_dir[e1] \in fs /\ temp_dir[e2] \in fs

\* C21: a message that takes the provide_and_run branch stores the code of
\* its first c block and the language c before the execution starts, that
\* code is executed, once, with the input of the message, and a
\* code_execution response built from the record of that execution is
\* returned; the stored code stays what it is whatever the execution does.
StepCount(e, step) ==
  Cardinality({k \in 1..Len(trail[e]) : trail[e][k].step = step})
C21_ProvidedCodeRuns ==
  chat.branch = "provide_and_run" =>
    LET code == CodeInfo[chat.message][2] IN
      /\ sessions[chat.sid].last_generated_code = code
      /\ sessions[chat.sid].language = "c"
      /\ chat.id # 0
      /\ pc[chat.id] # "unused"
      /\ args[chat.id].code = code
      /\ args[chat.id].input = chat.input_data
      /\ \A e \in ExecIds : e > chat.id => pc[e] = "unused"
      /\ StepCount(chat.id, "compile") <= 1
      /\ StepCount(chat.id, "run") <= 1
      /\ chat.state = "idle" =>
           /\ response.type = "code_execution"
           /\ chat.id \in DOMAIN execution_results
           /\ response = ExecutionResponse(code, chat.id, execution_results[chat.id])

\* C22: a generate call that succeeds stores the code it got as the last
\* code of the session, with language c, appends it as the assistant turn
\* and returns a code_generation response holding it; a message that takes
\* the generate or the converse branch starts no execution and stores no
\* record.
C22_GenerateStoresOnly ==
  [][(chat' # chat /\ chat'.branch \in {"generate", "converse"}) =>
       /\ pc' = pc
       /\ args' = args
       /\ execution_results' = execution_results
       /\ running' = Idle
       /\ chat'.id = 0
       /\ (chat'.branch = "generate" /\ ~chat'.failed) =>
            LET after == sessions'[chat'.sid] IN
              /\ response'.type = "code_generation"
              /\ response'.content
                   \in {CleanCode(raw) : raw \in RawGenerations \ {Raise}}
              /\ after.last_generated_code = response'.content
              /\ after.language = "c"
              /\ after.history
                   = chat'.before.history \o
                       <<Turn("user", chat'.message),
                         Turn("assistant", response'.content)>>]_vars
C22_Witness ==
  /\ chat.branch = "generate"
  /\ ~chat.failed
  /\ StoredCode(chat.before)
  /\ response.type = "code_generation"
  /\ sessions[chat.sid].last_generated_code # chat.before.last_generated_code

\* C23: classify_request is called for the messages that take neither
\* execution branch, and when it raises the converse branch handles the
\* message: generate_code is not called, no code_generation response is
\* returned, and the last code and language of the session stay as they were.
C23_ClassifierFailsOpen ==
  /\ chat.branch # "none" =>
       (chat.cls # "none" <=> chat.branch \in {"generate", "converse"})
  /\ chat.cls = "raise" =>
       /\ chat.branch = "converse"
       /\ chat.id = 0
       /\ response.type = "text"
       /\ sessions[chat.sid].last_generated_code = chat.before.last_generated_code
       /\ sessions[chat.sid].language = chat.before.language
C23_Witness ==
  /\ chat.cls = "raise"
  /\ chat.branch = "converse"
  /\ ~chat.failed
  /\ StoredCode(chat.before)

\* C24: a message that takes the run_previous branch executes the code the
\* session held on entry with the input of the message, returns a
\* code_execution response built from the record of that execution, and
\* leaves the last code and language of the session as they were.
C24_RunsStoredCode ==
  chat.branch = "run_previous" =>
    /\ chat.code = chat.before.last_generated_code
    /\ chat.id # 0
    /\ args[chat.id].code = chat.before.last_generated_code
    /\ args[chat.id].input = chat.input_data
    /\ sessions[chat.sid].last_generated_code = chat.before.last_generated_code
    /\ sessions[chat.sid].language = chat.before.language
    /\ chat.state = "idle" =>
         /\ response.type = "code_execution"
         /\ chat.id \in DOMAIN execution_results
         /\ response = ExecutionResponse(chat.before.last_generated_code, chat.id,
                                         execution_results[chat.id])

\* C25: a disconnect removes the one connection from the list of its id and
\* deletes the entry when the list is empty, for the disconnect of the
\* endpoint and for those made by broadcast after its loop; the lists of the
\* other ids and the stored results stay as they are, and the disconnect of
\* a connection that is not in the list changes nothing.
ListOf(ac, e) == IF e \in DOMAIN ac THEN ac[e] ELSE <<>>
Without(s, xs) == SelectSeq(s, LAMBDA y : ~InSeq(y, xs))
OnlyListChanged(e, l) ==
  /\ ListOf(active_connections', e) = l
  /\ e \in DOMAIN active_connections' <=> l # <<>>
  /\ \A x \in ExecIds \ {e} :
       /\ x \in DOMAIN active_connections' <=> x \in DOMAIN active_connections
       /\ ListOf(active_connections', x) = ListOf(active_connections, x)
  /\ execution_results' = execution_results
C25_UnsubscribeFrame ==
  [][/\ \A w \in Channels :
          (wpc[w] = "open" /\ wpc'[w] = "closed") =>
            /\ OnlyListChanged(wid[w],
                               Without(ListOf(active_connections, wid[w]), <<w>>))
            /\ ~Registered(w, wid[w]) => active_connections' = active_connections
     /\ \A e \in ExecIds :
          (pc[e] = "broadcast" /\ pc'[e] # "broadcast") =>
            OnlyListChanged(e, Without(ListOf(active_connections, e), bc[e].disc))]_vars
C25_Witness ==
  \E w1, w2 \in Channels :
    /\ w1 < w2
    /\ wid[w1] = wid[w2]
    /\ wpc[w1] = "closed" /\ received[w1] # <<>>
    /\ Registered(w2, wid[w2])

\* C26: the first message of a session id makes the session, with an empty
\* history, no code and language c, before the message is handled; a later
\* message finds the session it left: every history is a prefix of the
\* later ones, no session goes away and stored code is never unset.
C26_SessionsGrow ==
  [][/\ \A sid \in DOMAIN sessions :
          /\ sid \in DOMAIN sessions'
          /\ IsPrefix(sessions[sid].history, sessions'[sid].history)
          /\ sessions[sid].last_generated_code # None
               => sessions'[sid].last_generated_code # None
     /\ \A sid \in (DOMAIN sessions') \ DOMAIN sessions :
          LET made == sessions'[sid] IN
            /\ chat'.sid = sid
            /\ made.history[1] = Turn("user", chat'.message)
            /\ Len(made.history) <= 2
            /\ made.language = "c"
            /\ chat'.branch # "run_previous"
            /\ (chat'.branch = "converse" \/ chat'.failed)
                 => made.last_generated_code = None]_vars
C26_Witness ==
  \E sid \in DOMAIN sessions :
    /\ tally[sid].msgs = 2
    /\ Len(sessions[sid].history) = 4
    /\ StoredCode(sessions[sid])
    /\ chat.branch = "converse"

\* C27: when a record is stored, its execution_time is the time that has
\* passed since the call was entered, and the dict the call returns is the
\* stored one; in every branch, the one taken without gcc included.
C27_ExecutionTimeIsElapsed ==
  [][\A e \in (DOMAIN execution_results') \ DOMAIN execution_results :
       /\ execution_results'[e].execution_time = now' - start_time'[e]
       /\ result'[e] = execution_results'[e]]_vars

\* C28: the dict of the manager has no empty list: every key is an id with
\* at least one connection in its list, each connection once, and the
\* connections listed are those of endpoints that are open for that id.
C28_NoEmptySet ==
  /\ DOMAIN active_connections \subseteq ExecIds
  /\ \A e \in DOMAIN active_connections :
       LET l == active_connections[e] IN
         /\ l # <<>>
         /\ \A k \in 1..Len(l) : wpc[l[k]] = "open" /\ wid[l[k]] = e
         /\ \A j, k \in 1..Len(l) : l[j] = l[k] => j = k
C28_Witness ==
  \E w \in Channels :
    /\ broken[w] /\ wpc[w] = "open"
    /\ pc[wid[w]] = "done"
    /\ Len(published[wid[w]]) > 1
    /\ wid[w] \notin DOMAIN active_connections

\* C29: no connection receives the completed event of its execution more
\* than once, however its joining interleaves with the last broadcast.
C29_CompletedAtMostOnce ==
  \A w \in Channels : CompletedCount(w) <= 1

\* C30: when the loop of a broadcast has run through its list and a
\* connection that was in the list when the call was made has been
\* disconnected by its endpoint since, every other connection of that list
\* that is still registered and can be sent to has received the message.
C30_UnsubscribeDuringPublish ==
  \A e \in ExecIds :
    (/\ pc[e] = "broadcast"
     /\ bc[e].i >= Len(BcList(e))
     /\ \E k \in 1..Len(bc[e].at_call) : wpc[bc[e].at_call[k]] = "closed")
    => \A k \in 1..Len(bc[e].at_call) :
         (Registered(bc[e].at_call[k], e) /\ ~broken[bc[e].at_call[k]])
         => InSeq(bc[e].ev, received[bc[e].at_call[k]])

\* C31: an id is a key of execution_results only when its call has made its
\* last write to the record: it is in the last broadcast or has returned, and
\* the dict stored is the one the call returns.  A lookup made while the call
\* had not come that far found nothing, and a lookup that found a record
\* found the record that is stored now.
C31_NoPartialResult ==
  /\ \A e \in DOMAIN execution_results :
       /\ Position(e) = "done"
       /\ execution_results[e] = result[e]
  /\ lookup.id # 0 =>
       IF lookup.at = "done"
         THEN /\ lookup.id \in DOMAIN execution_results
              /\ lookup.found = execution_results[lookup.id]
         ELSE lookup.found = NotFound
C31_Witness ==
  /\ lookup.id # 0
  /\ lookup.at \in {"write", "compile", "run"}
  /\ lookup.found = NotFound
  /\ pc[lookup.id] = "done"
  /\ lookup.id \in DOMAIN execution_results

\* C32: the language of every session is "c" in every reachable state; the
\* text response for a language that cannot be executed is never returned,
\* and a message that takes the run_previous or the provide_and_run branch
\* makes a call of execute_c_code.
UnsupportedLanguageResponse ==
  TextResponse("Sorry, I can only execute C code right now.")
C32_LanguageIsC ==
  /\ \A sid \in DOMAIN sessions : sessions[sid].language = "c"
  /\ response # UnsupportedLanguageResponse
  /\ chat.branch \in {"run_previous", "provide_and_run"} =>
       /\ chat.id # 0
       /\ pc[chat.id] # "unused"
       /\ ~args[chat.id].manager
       /\ args[chat.id].code = chat.code
C32_Witness ==
  /\ chat.branch = "provide_and_run"
  /\ \E i \in 1..Len(chat.message) :
       FenceAt(chat.message, i) /\ i + 3 <= Len(chat.message)
       /\ chat.message[i + 3] = "C"
  /\ sessions[chat.sid].language = "c"
  /\ response.type = "code_execution"
  /\ chat.state = "idle"

====
